---- MODULE Spec2Model ----
(***************************************************************************)
(* The dashboard script app.py as a state machine.  One behaviour is one   *)
(* browser session: the script runs top to bottom (a render pass), and     *)
(* every user interaction reruns it from the first line.  The only value   *)
(* that survives a rerun is the entry st.cache_data keeps for load_data.   *)
(*                                                                         *)
(* Numbers are exact rationals [n, d]; d = 0 stands for the float values   *)
(* that are no numbers: n = 0 is NaN, n = 1 / -1 is +inf / -inf.  A        *)
(* missing cell of a text column is the value NaN_TEXT.  Numeric cells of  *)
(* the sheets drawn here are never missing.                                *)
(***************************************************************************)
EXTENDS Integers, Sequences, FiniteSets, TLC

\* Largest number of data rows in the sheet.
MaxRows == 2

DATA_PATH == "cleaned_project_data.xlsx"

PT  == "Project Type"
ST  == "Status"
TP  == "Total Projects"
BA  == "Budget Allocated"
BU  == "Budget Utilized"
CSR == "Citizen Satisfaction Rate"
YR  == "Year"
BUP == "Budget Utilization Percentage"
BUD == "Budget Utilization Display"

ExpectedColumns == {PT, ST, TP, BA, BU, CSR, YR, BUP}

NaN_TEXT == "NaN"

Range(s) == {s[i] : i \in 1..Len(s)}

-----------------------------------------------------------------------------
(* Float arithmetic, exact.                                                *)

Q(n, d) == [n |-> n, d |-> d]
Zero == Q(0, 1)
NaN  == Q(0, 0)

Abs(x) == IF x < 0 THEN -x ELSE x
Sign(x) == IF x < 0 THEN -1 ELSE IF x > 0 THEN 1 ELSE 0

RECURSIVE GCD(_, _)
GCD(a, b) == IF b = 0 THEN a ELSE GCD(b, a % b)

RNorm(n, d) ==
    IF d = 0 THEN Q(Sign(n), 0)
    ELSE LET g == GCD(Abs(n), Abs(d))
             s == Sign(d)
         IN  Q((s * n) \div g, (s * d) \div g)

RAdd(a, b) ==
    IF a.d = 0 /\ b.d = 0 THEN (IF a.n = b.n THEN a ELSE NaN)
    ELSE IF a.d = 0 THEN a
    ELSE IF b.d = 0 THEN b
    ELSE RNorm(a.n * b.d + b.n * a.d, a.d * b.d)

RMul(a, b) == RNorm(a.n * b.n, a.d * b.d)

RDiv(a, b) ==
    IF b.d = 0 THEN (IF a.d = 0 \/ b.n = 0 THEN NaN ELSE Zero)
    ELSE RNorm(a.n * b.d, a.d * b.n)

\* a > b on floats: every comparison with NaN is false.
RGt(a, b) ==
    IF a = NaN \/ b = NaN THEN FALSE
    ELSE IF a.d = 0 \/ b.d = 0
         THEN (IF a.d = 0 THEN a.n ELSE 0) > (IF b.d = 0 THEN b.n ELSE 0)
    ELSE a.n * b.d > b.n * a.d

\* int(x) for a finite x: truncation toward zero.
Trunc(a) == Sign(a.n) * (Abs(a.n) \div a.d)

\* f"{x:.2f}%": the number of hundredths, the exact value rounded half to even.
Fmt2(a) ==
    IF a.d = 0
    THEN [text |-> IF a.n = 0 THEN "nan%" ELSE IF a.n > 0 THEN "inf%" ELSE "-inf%",
          hundredths |-> 0]
    ELSE LET m == a.n * 100
             q == m \div a.d
             r == m % a.d
         IN  [text |-> "number%",
              hundredths |-> IF 2 * r > a.d THEN q + 1
                             ELSE IF 2 * r < a.d THEN q
                             ELSE q + (q % 2)]

-----------------------------------------------------------------------------
(* Data frames: a set of column names and the rows in order, each row its  *)
(* index label and its cells.                                              *)

Frame(cols, rows) == [columns |-> cols, rows |-> rows]
EmptyFrame == Frame({}, <<>>)

\* The rows a sheet is made of.
RoadDone ==
    (PT :> "Road" @@ ST :> "Done" @@ TP :> Q(3, 1) @@ BA :> Q(100, 1)
     @@ BU :> Q(80, 1) @@ CSR :> Q(9, 10) @@ YR :> Q(2021, 1) @@ BUP :> Q(4, 5))
SchoolActive ==
    (PT :> "School" @@ ST :> "Active" @@ TP :> Q(2, 1) @@ BA :> Q(50, 1)
     @@ BU :> Q(50, 1) @@ CSR :> Q(3, 5) @@ YR :> Q(2020, 1) @@ BUP :> Q(1, 1))
UntypedRefund ==
    (PT :> NaN_TEXT @@ ST :> "Done" @@ TP :> Q(1, 1) @@ BA :> Q(-100, 1)
     @@ BU :> Q(30, 1) @@ CSR :> Q(1, 2) @@ YR :> Q(2021, 1) @@ BUP :> Q(1, 4))
SheetRows == {RoadDone, SchoolActive, UntypedRefund}

\* Text values in ascending (lexicographic) order.
TextOrder == <<"Active", "Done", "Road", "School">>
TextRank(s) == CHOOSE i \in 1..Len(TextOrder) : TextOrder[i] = s

RECURSIVE MakeRows(_, _, _)
MakeRows(seq, cols, i) ==
    IF i > Len(seq) THEN <<>>
    ELSE <<[idx |-> i - 1, cells |-> [c \in cols |-> seq[i][c]]]>>
         \o MakeRows(seq, cols, i + 1)

\* What read_excel can return for the sheet 'Cleaned Data'.
Sheets(colsets) ==
    {EmptyFrame} \cup
    {Frame(cols, MakeRows(seq, cols, 1)) :
        cols \in colsets \ {{}},
        seq \in UNION {[1..n -> SheetRows] : n \in 0..MaxRows}}

\* As empty, testing for a missing object instead of an empty frame.
empty_mut(d) == FALSE
\* df.empty
empty(d) == d.columns = {} \/ Len(d.rows) = 0

\* d[c]: the cells of the column in row order; KeyError when d has no such
\* column.
getitem(d, c) ==
    IF c \in d.columns
    THEN [raised |-> FALSE, series |-> [i \in 1..Len(d.rows) |-> d.rows[i].cells[c]]]
    ELSE [raised |-> TRUE, series |-> <<>>]

\* d[c] = s: the column is added, or replaced, in place.
setitem(d, c, s) ==
    Frame(d.columns \cup {c},
          [i \in 1..Len(d.rows) |->
              [idx |-> d.rows[i].idx,
               cells |-> [k \in d.columns \cup {c} |->
                            IF k = c THEN s[i] ELSE d.rows[i].cells[k]]]])

RECURSIVE SumFrom(_, _)
SumFrom(s, i) == IF i > Len(s) THEN Zero ELSE RAdd(s[i], SumFrom(s, i + 1))
\* Series.sum()
Sum(s) == SumFrom(s, 1)
\* Series.mean(): NaN for an empty series.
Mean(s) == RDiv(Sum(s), Q(Len(s), 1))

\* Series.unique().tolist(): the values in order of first appearance, a
\* missing value included.
RECURSIVE unique(_)
unique(s) ==
    IF Len(s) = 0 THEN <<>>
    ELSE LET front == unique(SubSeq(s, 1, Len(s) - 1))
             last  == s[Len(s)]
         IN  IF last \in Range(front) THEN front ELSE Append(front, last)

\* As isin, comparing with ==, under which a missing value equals nothing.
isin_mut(s, values) == [i \in 1..Len(s) |-> s[i] \in values /\ s[i] # NaN_TEXT]
\* Series.isin(values): one boolean per row; a missing value matches a
\* missing value.
isin(s, values) == [i \in 1..Len(s) |-> s[i] \in values]

RECURSIVE Keep(_, _, _)
Keep(rows, mask, i) ==
    IF i > Len(rows) THEN <<>>
    ELSE (IF mask[i] THEN <<rows[i]>> ELSE <<>>) \o Keep(rows, mask, i + 1)
\* d[mask]: a new frame holding the rows whose mask entry is true.
BoolIndex(d, mask) == Frame(d.columns, Keep(d.rows, mask, 1))

\* Number of entries of s equal to v.
Count(s, v) == Cardinality({i \in 1..Len(s) : s[i] = v})

\* The cells of column col in the rows whose column by holds key.
RECURSIVE Pick(_, _, _, _, _)
Pick(keys, vals, key, i, acc) ==
    IF i > Len(keys) THEN acc
    ELSE Pick(keys, vals, key, i + 1,
              IF keys[i] = key THEN Append(acc, vals[i]) ELSE acc)

\* Ascending order of a set of text keys / of a set of numeric keys.
RECURSIVE SortedText(_)
SortedText(S) ==
    IF S = {} THEN <<>>
    ELSE LET m == CHOOSE x \in S : \A y \in S : TextRank(x) <= TextRank(y)
         IN  <<m>> \o SortedText(S \ {m})
RECURSIVE SortedNum(_)
SortedNum(S) ==
    IF S = {} THEN <<>>
    ELSE LET m == CHOOSE x \in S : \A y \in S : ~RGt(x, y)
         IN  <<m>> \o SortedNum(S \ {m})

\* Series.value_counts().reset_index(): missing values dropped, most frequent
\* first, values of equal frequency in order of first appearance.
RECURSIVE ByCount(_, _)
ByCount(keys, s) ==
    IF Len(keys) = 0 THEN <<>>
    ELSE LET best == CHOOSE i \in 1..Len(keys) :
                        /\ \A j \in 1..Len(keys) : Count(s, keys[j]) <= Count(s, keys[i])
                        /\ \A j \in 1..(i - 1) : Count(s, keys[j]) < Count(s, keys[i])
         IN  <<[key |-> keys[best], value |-> Count(s, keys[best])]>>
             \o ByCount(SelectSeq(keys, LAMBDA k : k # keys[best]), s)
value_counts(s) == ByCount(SelectSeq(unique(s), LAMBDA k : k # NaN_TEXT), s)

\* d.groupby(by)[col].sum().reset_index(): one entry per key present, keys
\* ascending, rows whose key is missing dropped.
groupby_sum(d, by, col) ==
    LET k == getitem(d, by)
        v == getitem(d, col)
        keys == SortedText(Range(k.series) \ {NaN_TEXT})
    IN  IF k.raised \/ v.raised THEN [raised |-> TRUE, value |-> <<>>]
        ELSE [raised |-> FALSE,
              value |-> [j \in 1..Len(keys) |->
                  [key |-> keys[j],
                   value |-> Sum(Pick(k.series, v.series, keys[j], 1, <<>>))]]]

\* As groupby_mean with sort=False: the keys in order of first appearance.
groupby_mean_mut(d, by, col) ==
    LET k == getitem(d, by)
        v == getitem(d, col)
        keys == unique(k.series)
    IN  IF k.raised \/ v.raised THEN [raised |-> TRUE, value |-> <<>>]
        ELSE [raised |-> FALSE,
              value |-> [j \in 1..Len(keys) |->
                  [key |-> keys[j],
                   value |-> Mean(Pick(k.series, v.series, keys[j], 1, <<>>))]]]
\* d.groupby(by)[col].mean().reset_index(), the keys numbers.
groupby_mean(d, by, col) ==
    LET k == getitem(d, by)
        v == getitem(d, col)
        keys == SortedNum(Range(k.series))
    IN  IF k.raised \/ v.raised THEN [raised |-> TRUE, value |-> <<>>]
        ELSE [raised |-> FALSE,
              value |-> [j \in 1..Len(keys) |->
                  [key |-> keys[j],
                   value |-> Mean(Pick(k.series, v.series, keys[j], 1, <<>>))]]]

-----------------------------------------------------------------------------
(* The script.                                                             *)

VARIABLES
    file,       \* the spreadsheet on disk: exists, readable, sheet
    cache,      \* st.cache_data's entries for load_data: <<>> or one entry
    pc,         \* the line the pass has reached
    df, df_filtered,
    alias,      \* df_filtered is the very object df (line 50), not a new frame
    selected_project_type, selected_status,
    total_projects, avg_budget_utilization, avg_satisfaction,
    metrics,    \* the three values as st.metric displays them
    status_counts, budget_by_type, utilization_trend,
    out,        \* what this pass has put on the page, in order
    audit,      \* whether the first completed pass is recorded in first
    first       \* <<>>, or the filter state and aggregates of that pass, and
                \* whether a pass with another filter state completed since

script == <<df, df_filtered, alias, selected_project_type, selected_status,
            total_projects, avg_budget_utilization, avg_satisfaction, metrics,
            status_counts, budget_by_type, utilization_trend, out>>
vars == <<file, cache, pc, script, audit, first>>

El(kind, about) == [kind |-> kind, about |-> about]
Shows(kind, about) == El(kind, about) \in Range(out)
ShowsKind(kind) == \E e \in Range(out) : e.kind = kind

\* The body of load_data (lines 18-26), run against the file on disk.
read_excel(path) ==
    IF ~file.exists THEN [df |-> EmptyFrame, err |-> "Data file not found"]
    ELSE IF ~file.readable THEN [df |-> EmptyFrame, err |-> "Error loading data"]
    ELSE [df |-> file.sheet, err |-> "none"]

\* As load_data without the decorator of line 16: every pass reads the file.
load_data_mut(path) == read_excel(path)
\* load_data under @st.cache_data: the body runs on the first call for a
\* path; later calls return a copy of the stored result and replay its
\* st.error.
load_data(path) ==
    IF \E i \in 1..Len(cache) : cache[i].path = path
    THEN (CHOOSE e \in Range(cache) : e.path = path).result
    ELSE read_excel(path)

\* The Dataset of this session: what load_data returned on its first call.
Loaded == cache[1].result.df

Files(colsets) ==
    {[exists |-> FALSE, readable |-> FALSE, sheet |-> EmptyFrame],
     [exists |-> TRUE, readable |-> FALSE, sheet |-> EmptyFrame]}
    \cup {[exists |-> TRUE, readable |-> TRUE, sheet |-> s] : s \in Sheets(colsets)}

NoMetrics == [total |-> 0, budget |-> [text |-> "unset", hundredths |-> 0],
              satisfaction |-> [text |-> "unset", hundredths |-> 0]]

\* The script's globals before line 1 has run.
Fresh ==
    /\ df = EmptyFrame
    /\ df_filtered = EmptyFrame
    /\ alias = FALSE
    /\ selected_project_type = {}
    /\ selected_status = {}
    /\ total_projects = Zero
    /\ avg_budget_utilization = Zero
    /\ avg_satisfaction = Zero
    /\ metrics = NoMetrics
    /\ status_counts = <<>>
    /\ budget_by_type = <<>>
    /\ utilization_trend = <<>>
    /\ out = <<>>

Init ==
    /\ file \in Files(SUBSET ExpectedColumns)
    /\ cache = <<>>
    /\ pc = "load"
    /\ Fresh
    /\ audit = FALSE
    /\ first = <<>>

\* Line 28.
Load ==
    /\ pc = "load"
    /\ LET r == load_data(DATA_PATH)
       IN  /\ cache' = IF cache = <<>>
                       THEN <<[path |-> DATA_PATH, result |-> r]>> ELSE cache
           /\ df' = r.df
           /\ out' = IF r.err = "none" THEN out ELSE Append(out, El("error", r.err))
    /\ pc' = "check"
    /\ UNCHANGED <<file, df_filtered, alias, selected_project_type, selected_status,
                   total_projects, avg_budget_utilization, avg_satisfaction,
                   metrics, status_counts, budget_by_type, utilization_trend, audit, first>>

\* Lines 30-38.
StopIfEmpty ==
    /\ pc = "check"
    /\ IF empty(df)
       THEN pc' = "stopped" /\ out' = out
       ELSE pc' = "filter_type" /\ out' = Append(out, El("title", "dashboard"))
    /\ UNCHANGED <<file, cache, df, df_filtered, alias, selected_project_type,
                   selected_status, total_projects, avg_budget_utilization,
                   avg_satisfaction, metrics, status_counts, budget_by_type,
                   utilization_trend, audit, first>>

\* The uncaught exception ends the pass.
Raise ==
    /\ pc' = "aborted"
    /\ out' = Append(out, El("exception", "KeyError"))

\* Lines 41-51.  The user's selection is any subset of the options.
FilterProjectType ==
    /\ pc = "filter_type"
    /\ IF PT \in df.columns
       THEN LET col == getitem(df, PT)
            IN  IF col.raised
                THEN Raise /\ UNCHANGED <<df_filtered, alias, selected_project_type>>
                ELSE \E sel \in SUBSET Range(unique(col.series)) :
                        /\ selected_project_type' = sel
                        /\ df_filtered' = BoolIndex(df, isin(col.series, sel))
                        /\ alias' = FALSE
                        /\ out' = Append(out, El("multiselect", PT))
                        /\ pc' = "filter_status"
       ELSE /\ df_filtered' = df
            /\ alias' = TRUE
            /\ out' = Append(out, El("warning", PT))
            /\ pc' = "filter_status"
            /\ UNCHANGED selected_project_type
    /\ UNCHANGED <<file, cache, df, selected_status, total_projects,
                   avg_budget_utilization, avg_satisfaction, metrics, status_counts,
                   budget_by_type, utilization_trend, audit, first>>

\* Lines 54-63.
FilterStatus ==
    /\ pc = "filter_status"
    /\ IF ST \in df.columns
       THEN LET options == getitem(df, ST)
                col == getitem(df_filtered, ST)
            IN  IF options.raised \/ col.raised
                THEN Raise /\ UNCHANGED <<df_filtered, alias, selected_status>>
                ELSE \E sel \in SUBSET Range(unique(options.series)) :
                        /\ selected_status' = sel
                        /\ df_filtered' = BoolIndex(df_filtered, isin(col.series, sel))
                        /\ alias' = FALSE
                        /\ out' = Append(out, El("multiselect", ST))
                        /\ pc' = "kpi"
       ELSE /\ out' = Append(out, El("warning", ST))
            /\ pc' = "kpi"
            /\ UNCHANGED <<df_filtered, alias, selected_status>>
    /\ UNCHANGED <<file, cache, df, selected_project_type, total_projects,
                   avg_budget_utilization, avg_satisfaction, metrics, status_counts,
                   budget_by_type, utilization_trend, audit, first>>

\* Line 71.
compute_total_projects(d) ==
    IF TP \in d.columns
    THEN LET col == getitem(d, TP)
         IN  [raised |-> col.raised, value |-> Sum(col.series)]
    ELSE [raised |-> FALSE, value |-> Zero]

\* As compute_avg_budget_utilization, the guard testing for a non-zero sum.
compute_avg_budget_utilization_mut(d) ==
    IF BU \in d.columns /\ BA \in d.columns /\ Sum(getitem(d, BA).series) # Zero
    THEN LET u == getitem(d, BU)
             a == getitem(d, BA)
         IN  [raised |-> u.raised \/ a.raised,
              value |-> RMul(RDiv(Sum(u.series), Sum(a.series)), Q(100, 1))]
    ELSE [raised |-> FALSE, value |-> Zero]
\* Lines 75-77.
compute_avg_budget_utilization(d) ==
    IF BU \in d.columns /\ BA \in d.columns /\ RGt(Sum(getitem(d, BA).series), Zero)
    THEN LET u == getitem(d, BU)
             a == getitem(d, BA)
         IN  [raised |-> u.raised \/ a.raised,
              value |-> RMul(RDiv(Sum(u.series), Sum(a.series)), Q(100, 1))]
    ELSE [raised |-> FALSE, value |-> Zero]

\* As compute_avg_satisfaction without the test for the column.
compute_avg_satisfaction_mut(d) ==
    LET col == getitem(d, CSR)
    IN  [raised |-> col.raised, value |-> RMul(Mean(col.series), Q(100, 1))]
\* Line 82.
compute_avg_satisfaction(d) ==
    IF CSR \in d.columns
    THEN LET col == getitem(d, CSR)
         IN  [raised |-> col.raised, value |-> RMul(Mean(col.series), Q(100, 1))]
    ELSE [raised |-> FALSE, value |-> Zero]

\* Lines 67-83.
KPIs ==
    /\ pc = "kpi"
    /\ LET t == compute_total_projects(df_filtered)
           b == compute_avg_budget_utilization(df_filtered)
           c == compute_avg_satisfaction(df_filtered)
       IN  IF t.raised \/ b.raised \/ c.raised
           THEN Raise /\ UNCHANGED <<total_projects, avg_budget_utilization,
                                     avg_satisfaction, metrics>>
           ELSE /\ total_projects' = t.value
                /\ avg_budget_utilization' = b.value
                /\ avg_satisfaction' = c.value
                /\ metrics' = [total |-> Trunc(t.value), budget |-> Fmt2(b.value),
                               satisfaction |-> Fmt2(c.value)]
                /\ out' = out \o <<El("metric", "Total Projects"),
                                   El("metric", "Avg Budget Utilization"),
                                   El("metric", "Avg Citizen Satisfaction")>>
                /\ pc' = "status_chart"
    /\ UNCHANGED <<file, cache, df, df_filtered, alias, selected_project_type,
                   selected_status, status_counts, budget_by_type,
                   utilization_trend, audit, first>>

\* Lines 89-99.
StatusChart ==
    /\ pc = "status_chart"
    /\ IF ST \in df_filtered.columns
       THEN LET col == getitem(df_filtered, ST)
            IN  IF col.raised
                THEN Raise /\ UNCHANGED status_counts
                ELSE /\ status_counts' = value_counts(col.series)
                     /\ out' = Append(out, El("chart", "bar"))
                     /\ pc' = "budget_pie"
       ELSE pc' = "budget_pie" /\ UNCHANGED <<status_counts, out>>
    /\ UNCHANGED <<file, cache, df, df_filtered, alias, selected_project_type,
                   selected_status, total_projects, avg_budget_utilization,
                   avg_satisfaction, metrics, budget_by_type, utilization_trend,
                   audit, first>>

\* Lines 102-110.
BudgetPie ==
    /\ pc = "budget_pie"
    /\ IF BA \in df_filtered.columns /\ PT \in df_filtered.columns
       THEN LET g == groupby_sum(df_filtered, PT, BA)
            IN  IF g.raised
                THEN Raise /\ UNCHANGED budget_by_type
                ELSE /\ budget_by_type' = g.value
                     /\ out' = Append(out, El("chart", "pie"))
                     /\ pc' = "trend"
       ELSE pc' = "trend" /\ UNCHANGED <<budget_by_type, out>>
    /\ UNCHANGED <<file, cache, df, df_filtered, alias, selected_project_type,
                   selected_status, total_projects, avg_budget_utilization,
                   avg_satisfaction, metrics, status_counts, utilization_trend,
                   audit, first>>

\* As trend_branch, line 127 a plain else.
trend_branch_mut(d) ==
    IF YR \in d.columns /\ BUP \in d.columns THEN "chart" ELSE "notice"
\* The branch lines 113 and 127 take.
trend_branch(d) ==
    IF YR \in d.columns /\ BUP \in d.columns THEN "chart"
    ELSE IF BUP \in d.columns THEN "notice"
    ELSE "none"

\* Lines 113-128.  Line 115 writes the new column into df_filtered itself,
\* which is df when no filter made a new frame.
Trend ==
    /\ pc = "trend"
    /\ LET b == trend_branch(df_filtered)
           col == getitem(df_filtered, BUP)
           display == [i \in 1..Len(col.series) |-> RMul(col.series[i], Q(100, 1))]
           written == setitem(df_filtered, BUD, display)
           g == groupby_mean(written, YR, BUD)
       IN  IF b = "chart"
           THEN IF col.raised \/ g.raised
                THEN Raise /\ UNCHANGED <<df, df_filtered, utilization_trend>>
                ELSE /\ df_filtered' = written
                     /\ df' = IF alias THEN written ELSE df
                     /\ utilization_trend' = g.value
                     /\ out' = Append(out, El("chart", "line"))
                     /\ pc' = "table"
           ELSE /\ out' = IF b = "notice" THEN Append(out, El("info", "trend")) ELSE out
                /\ pc' = "table"
                /\ UNCHANGED <<df, df_filtered, utilization_trend>>
    /\ UNCHANGED <<file, cache, alias, selected_project_type, selected_status,
                   total_projects, avg_budget_utilization, avg_satisfaction,
                   metrics, status_counts, budget_by_type, audit, first>>

\* The aggregates on the page: the KPIs and the data of the charts drawn.
Shown(o, m, sc, bt, ut) ==
    [metrics |-> m,
     charts |-> {e.about : e \in {x \in Range(o) : x.kind = "chart"}},
     status_counts |-> sc, budget_by_type |-> bt, utilization_trend |-> ut]
FilterState == <<selected_project_type, selected_status>>

\* Lines 131-135.
RawData ==
    /\ pc = "table"
    /\ out' = Append(out, El("dataframe", "df_filtered"))
    /\ pc' = "done"
    /\ first' = IF ~audit THEN first
                ELSE IF first = <<>>
                THEN <<[filter |-> FilterState,
                        shown |-> Shown(out, metrics, status_counts, budget_by_type,
                                        utilization_trend),
                        other |-> FALSE]>>
                ELSE IF first[1].filter # FilterState
                THEN <<[first[1] EXCEPT !.other = TRUE]>>
                ELSE first
    /\ UNCHANGED <<file, cache, df, df_filtered, alias, selected_project_type,
                   selected_status, total_projects, avg_budget_utilization,
                   avg_satisfaction, metrics, status_counts, budget_by_type,
                   utilization_trend, audit>>

\* A user interaction: the script runs again from line 1 with fresh globals;
\* only the cache is kept.
Rerun ==
    /\ pc \in {"done", "stopped", "aborted"}
    /\ pc' = "load"
    /\ df' = EmptyFrame
    /\ df_filtered' = EmptyFrame
    /\ alias' = FALSE
    /\ selected_project_type' = {}
    /\ selected_status' = {}
    /\ total_projects' = Zero
    /\ avg_budget_utilization' = Zero
    /\ avg_satisfaction' = Zero
    /\ metrics' = NoMetrics
    /\ status_counts' = <<>>
    /\ budget_by_type' = <<>>
    /\ utilization_trend' = <<>>
    /\ out' = <<>>
    /\ UNCHANGED <<file, cache, audit, first>>

\* The spreadsheet is edited on disk while the session lives: its last row
\* is deleted.
FileEdited ==
    /\ file.exists /\ file.readable /\ Len(file.sheet.rows) > 0
    /\ file' = [file EXCEPT !.sheet.rows = SubSeq(@, 1, Len(@) - 1)]
    /\ UNCHANGED <<cache, pc, script, audit, first>>

Next ==
    \/ Load
    \/ StopIfEmpty
    \/ FilterProjectType
    \/ FilterStatus
    \/ KPIs
    \/ StatusChart
    \/ BudgetPie
    \/ Trend
    \/ RawData
    \/ Rerun
    \/ FileEdited

Spec == Init /\ [][Next]_vars

\* The same session with the first completed pass recorded; the sheets have
\* all eight columns, no filterable column, or one column missing.
AuditColumnSets ==
    {ExpectedColumns, ExpectedColumns \ {PT, ST}}
    \cup {ExpectedColumns \ {c} : c \in ExpectedColumns}
InitAudit ==
    /\ file \in Files(AuditColumnSets)
    /\ cache = <<>>
    /\ pc = "load"
    /\ Fresh
    /\ audit = TRUE
    /\ first = <<>>
SpecAudit == InitAudit /\ [][Next]_vars

-----------------------------------------------------------------------------
(* Properties.                                                             *)

LoadFailed == cache # <<>> /\ cache[1].result.err # "none"
PastFilters == {"kpi", "status_chart", "budget_pie", "trend", "table", "done"}
PastKPIs == {"status_chart", "budget_pie", "trend", "table", "done"}

\* C1: in a pass whose load_data failed, the error message is on the page
\* once line 28 has run, the pass goes no further than st.stop(), and nothing
\* but the error is ever put on the page.
C1_FailedLoadHalts ==
    LoadFailed =>
        /\ pc \in {"load", "check", "stopped"}
        /\ pc # "load" => ShowsKind("error")
        /\ \A e \in Range(out) : e.kind = "error"
C1_Witness == LoadFailed /\ pc = "stopped" /\ ShowsKind("error")

\* Whether a row of df passes the filter of every filterable column present.
Selected(r) ==
    /\ PT \in df.columns => r.cells[PT] \in selected_project_type
    /\ ST \in df.columns => r.cells[ST] \in selected_status

\* C2: after both filter steps df_filtered holds exactly the rows of df whose
\* value in each present filterable column is selected, each once and in the
\* order of df (ascending index labels), with the columns of df.
C2_FilterExact ==
    pc = "kpi" =>
        /\ Range(df_filtered.rows) = {r \in Range(df.rows) : Selected(r)}
        /\ \A i, j \in 1..Len(df_filtered.rows) :
              i < j => df_filtered.rows[i].idx < df_filtered.rows[j].idx
        /\ df_filtered.columns = df.columns
C2_Witness ==
    /\ pc = "kpi"
    /\ {PT, ST} \subseteq df.columns
    /\ Len(df.rows) = 2
    /\ Len(df_filtered.rows) = 1
    /\ df_filtered.rows[1].cells[PT] = NaN_TEXT

\* C3: from load to the end of the pass df is the Dataset load_data returned.
C3_DatasetNeverAltered ==
    (cache # <<>> /\ pc # "load") => df = Loaded

\* C4: with no row left after filtering the KPIs read 0, "0.00%" and "0.00%".
C4_EmptyKPIs ==
    (pc \in PastKPIs /\ Len(df_filtered.rows) = 0) =>
        metrics = [total |-> 0,
                   budget |-> [text |-> "number%", hundredths |-> 0],
                   satisfaction |-> [text |-> "number%", hundredths |-> 0]]

\* C5: with a non-empty Dataset loaded, whatever columns are absent, the pass
\* never aborts and never stops short, and its end has the table on the
\* page; an absent filterable column has its warning shown and removes no
\* row (every row the present filters select is kept); a KPI with a column
\* absent reads 0.
C5_DegradesGracefully ==
    (cache # <<>> /\ pc # "load" /\ ~LoadFailed /\ ~empty(Loaded)) =>
        /\ pc \notin {"aborted", "stopped"}
        /\ pc = "done" => Shows("dataframe", "df_filtered")
        /\ (pc \in PastFilters \cup {"filter_status"} /\ PT \notin Loaded.columns)
              => Shows("warning", PT)
        /\ (pc \in PastFilters /\ ST \notin Loaded.columns) => Shows("warning", ST)
        /\ pc = "filter_status" /\ PT \notin Loaded.columns => df_filtered.rows = df.rows
        /\ pc = "kpi" => \A r \in Range(df.rows) : Selected(r) => r \in Range(df_filtered.rows)
        /\ pc \in PastKPIs =>
              /\ TP \notin Loaded.columns => metrics.total = 0
              /\ ~({BA, BU} \subseteq Loaded.columns)
                    => metrics.budget = [text |-> "number%", hundredths |-> 0]
              /\ CSR \notin Loaded.columns
                    => metrics.satisfaction = [text |-> "number%", hundredths |-> 0]
C5_Witness ==
    /\ pc = "done"
    /\ Loaded.columns = {YR}
    /\ Len(df_filtered.rows) = 2
    /\ Shows("warning", PT) /\ Shows("warning", ST)
    /\ Shows("dataframe", "df_filtered")

\* The whole-number total of a column of whole numbers.
RECURSIVE Total(_, _)
Total(rows, c) ==
    IF Len(rows) = 0 THEN 0 ELSE rows[1].cells[c].n + Total(Tail(rows), c)

\* C6: the budget KPI is sum(Budget Utilized) / sum(Budget Allocated) * 100
\* when both columns are present and the allocated sum is positive, and 0
\* otherwise; rows (100, 80) and (50, 50) display 86.67%.
C6_BudgetUtilization ==
    pc \in PastKPIs =>
        LET both == {BA, BU} \subseteq df_filtered.columns
            A == Total(df_filtered.rows, BA)
            U == Total(df_filtered.rows, BU)
            k == avg_budget_utilization
        IN  /\ IF both /\ A > 0
               THEN k.d > 0 /\ k.n * A = k.d * U * 100
               ELSE k = Zero
            /\ metrics.budget = Fmt2(k)
            /\ (both /\ Len(df_filtered.rows) = 2 /\ A = 150 /\ U = 130)
                  => metrics.budget = [text |-> "number%", hundredths |-> 8667]
C6_Witness ==
    /\ pc = "status_chart"
    /\ {BA, BU} \subseteq df_filtered.columns
    /\ Len(df_filtered.rows) = 2
    /\ df_filtered.rows[1].cells[BA] = Q(100, 1) /\ df_filtered.rows[1].cells[BU] = Q(80, 1)
    /\ df_filtered.rows[2].cells[BA] = Q(50, 1) /\ df_filtered.rows[2].cells[BU] = Q(50, 1)
    /\ metrics.budget.hundredths = 8667

RECURSIVE TotalOf(_)
TotalOf(groups) ==
    IF Len(groups) = 0 THEN Zero ELSE RAdd(groups[1].value, TotalOf(Tail(groups)))

\* C7: the per-type sums of the pie chart add up to the sum of Budget
\* Allocated over all rows of df_filtered.
C7_BudgetByTypeTotal ==
    (pc \in {"trend", "table", "done"} /\ {PT, BA} \subseteq df_filtered.columns) =>
        TotalOf(budget_by_type) = Q(Total(df_filtered.rows, BA), 1)

RECURSIVE SumOver(_, _)
SumOver(S, c) ==
    IF S = {} THEN Zero
    ELSE LET r == CHOOSE x \in S : TRUE
         IN  RAdd(RMul(r.cells[c], Q(100, 1)), SumOver(S \ {r}, c))

\* C8: the trend has one entry per year of df_filtered, in strictly ascending
\* order of year, each the mean of Budget Utilization Percentage * 100 over
\* the rows of its year.
C8_TrendByYear ==
    (pc \in {"table", "done"} /\ {YR, BUP} \subseteq df_filtered.columns) =>
        LET t == utilization_trend
            RowsOf(y) == {r \in Range(df_filtered.rows) : r.cells[YR] = y}
        IN  /\ {t[i].key : i \in 1..Len(t)} = {r.cells[YR] : r \in Range(df_filtered.rows)}
            /\ \A i, j \in 1..Len(t) : i < j => RGt(t[j].key, t[i].key)
            /\ \A i \in 1..Len(t) :
                  RMul(t[i].value, Q(Cardinality(RowsOf(t[i].key)), 1))
                      = SumOver(RowsOf(t[i].key), BUP)
C8_Witness ==
    /\ pc = "table"
    /\ {YR, BUP} \subseteq df_filtered.columns
    /\ Len(df_filtered.rows) = 2
    /\ RGt(df_filtered.rows[1].cells[YR], df_filtered.rows[2].cells[YR])
    /\ Len(utilization_trend) = 2

\* C9: once the trend step has run the line chart is on the page iff Year and
\* Budget Utilization Percentage are both present, the notice iff the
\* percentage is present and Year is not, and never both; before the step
\* neither is on the page.
C9_TrendOutcome ==
    LET chart == Shows("chart", "line")
        notice == Shows("info", "trend")
    IN  /\ pc \in {"table", "done"} =>
              /\ chart <=> {YR, BUP} \subseteq Loaded.columns
              /\ notice <=> (BUP \in Loaded.columns /\ YR \notin Loaded.columns)
        /\ pc \notin {"table", "done"} => ~chart /\ ~notice
        /\ ~(chart /\ notice)
C9_Witness ==
    /\ pc = "done"
    /\ Shows("info", "trend")
    /\ BUP \in Loaded.columns /\ YR \notin Loaded.columns

\* C10: a completed pass whose filter state is that of the session's first
\* completed pass shows the aggregates that pass showed, whatever passes ran
\* between them and whatever happened to the file.
C10_SameFilterSameAggregates ==
    (pc = "done" /\ first # <<>> /\ first[1].filter = FilterState) =>
        first[1].shown = Shown(out, metrics, status_counts, budget_by_type,
                               utilization_trend)
C10_Witness ==
    /\ pc = "done"
    /\ first # <<>>
    /\ first[1].other
    /\ first[1].filter = FilterState
    /\ file.sheet # Loaded
    /\ Len(utilization_trend) > 0

====
